---- MODULE Spec2Model ----
(***************************************************************************)
(* Model of opentelemetry/instrumentation/openai/shared/                   *)
(* embeddings_wrappers.py: the metrics wrapper, the synchronous and the    *)
(* asynchronous tracing wrapper around the embeddings call.                *)
(***************************************************************************)
EXTENDS Integers, Sequences, FiniteSets, TLC

\* ------------------------------------------------------------------ bounds
\* time.time() readings are drawn from 0..MaxTime; time.time() is the wall
\* clock, so a later reading may be lower than an earlier one
MaxTime == 2
\* embedding vectors have 0..MaxVec components
MaxVec == 2

\* ------------------------------------------------------------ the callers
Threads == {"t1", "t2"}
Wrappers == {"metrics", "sync", "async"}
Times == 0..MaxTime

\* ------------------------------------------------------------- exceptions
\* An exception object: its class and its message.
Exc(cls, msg) == [cls |-> cls, msg |-> msg]
NoExc == Exc("", "")
\* Classes derived from Exception, caught by `except Exception`.
OrdinaryClasses == {"RateLimitError", "AttributeError", "TypeError"}
\* Classes derived from BaseException only.
SignalClasses == {"CancelledError", "KeyboardInterrupt"}
IsExceptionOrSignal(e) == TRUE
IsException(e) == e.cls \in OrdinaryClasses

\* -------------------------------------------------------------- responses
\* Usage keys are character sequences so that split('_') is computed.
prompt_tokens == <<"p","r","o","m","p","t","_","t","o","k","e","n","s">>
completion_tokens ==
    <<"c","o","m","p","l","e","t","i","o","n","_","t","o","k","e","n","s">>
total_tokens == <<"t","o","t","a","l","_","t","o","k","e","n","s">>
OPENAI_LLM_USAGE_TOKEN_TYPES == {prompt_tokens, completion_tokens}

Entry(name, val) == [name |-> name, val |-> val]
\* usage: absent (None) or a mapping, kept as its (key, value) items in order
NoUsage == [present |-> FALSE, items |-> <<>>]
Usage(items) == [present |-> TRUE, items |-> items]

Zeros(n) == [i \in 1..n |-> 0]
\* an element of the data list: a mapping (with or without "embedding",
\* whose value may be None) or something that is no mapping
Elem(ismap, hasEmb, embNull, vec) ==
    [ismap |-> ismap, hasEmb |-> hasEmb, embNull |-> embNull, vec |-> vec]
Embedding(n) == Elem(TRUE, TRUE, FALSE, Zeros(n))
EmptyElem == Elem(TRUE, FALSE, FALSE, <<>>)
NullEmbedding == Elem(TRUE, TRUE, TRUE, <<>>)
NotAMapping == Elem(FALSE, FALSE, FALSE, <<>>)
NoData == [present |-> FALSE, items |-> <<>>]
Data(items) == [present |-> TRUE, items |-> items]

\* shape: "object" (typed response with a to-mapping conversion) or "mapping"
Response(shape, model, usage, data) ==
    [shape |-> shape, model |-> model, usage |-> usage, data |-> data]
NoResponse == Response("none", "None", NoUsage, NoData)

Usages ==
    { NoUsage,
      Usage(<<>>),
      Usage(<<Entry(prompt_tokens, 5)>>),
      Usage(<<Entry(total_tokens, 7)>>),
      Usage(<<Entry(prompt_tokens, 5), Entry(total_tokens, 5)>>),
      Usage(<<Entry(completion_tokens, 0), Entry(prompt_tokens, 3)>>) }
Datas ==
    { NoData, Data(<<>>), Data(<<EmptyElem>>), Data(<<NullEmbedding>>),
      Data(<<NotAMapping>>) }
    \cup { Data(<<Embedding(n)>>) : n \in 0..MaxVec }
    \cup { Data(<<Embedding(1), Embedding(MaxVec)>>) }
Models == {"None", "", "text-embedding-ada-002"}

Bodies ==
    { Response("mapping", m, u, Data(<<Embedding(1)>>)) :
          m \in Models, u \in Usages }
    \cup { Response("mapping", "text-embedding-ada-002",
                    Usage(<<Entry(prompt_tokens, 5)>>), d) : d \in Datas }
AsObject(r) == [r EXCEPT !.shape = "object"]
\* What the underlying client returns: typed objects under openai v1,
\* mappings before it.
ResponsesOf(v1) == IF v1 THEN { AsObject(r) : r \in Bodies } ELSE Bodies

\* ---------------------------------------------------------------- outcomes
\* What the underlying call does when it runs: return a response or raise.
Returns(r) == [kind |-> "return", resp |-> r, exc |-> NoExc]
Raises(e) == [kind |-> "raise", resp |-> NoResponse, exc |-> e]
\* an awaitable that nobody awaited
Coroutine == [kind |-> "coroutine", resp |-> NoResponse, exc |-> NoExc]
Nothing == [kind |-> "none", resp |-> NoResponse, exc |-> NoExc]
Raised ==
    { Exc("RateLimitError", "rate limit") }
        \cup { Exc(cls, "") : cls \in SignalClasses }
OutcomesOf(v1) ==
    { Returns(r) : r \in ResponsesOf(v1) } \cup { Raises(e) : e \in Raised }

\* ------------------------------------------------------------------ kwargs
NoInput == [kind |-> "none", items |-> <<>>]
StrInput(s) == [kind |-> "str", items |-> <<s>>]
ListInput(l) == [kind |-> "list", items |-> l]
Inputs == { NoInput, StrInput(""), StrInput("a"), ListInput(<<"a", "b">>) }
Kwargs == [model : {"None", "text-embedding-ada-002"}, input : Inputs]
NoKwargs == [model |-> "None", input |-> NoInput]

\* ------------------------------------------------- collaborators' helpers
\* model_as_dict: a typed object is converted to its mapping, anything else
\* is returned as it is
model_as_dict(response) ==
    IF response.shape = "object" THEN [response EXCEPT !.shape = "mapping"]
    ELSE response
\* _get_openai_base_url()
BaseUrl == "https://api.openai.com/v1/"

\* ---------------------------------------------- embeddings_metrics_wrapper
Measurement(amount, attributes) ==
    [amount |-> amount, attributes |-> attributes]
Emission(tokens, vector, duration, log, result) ==
    [tokens |-> tokens, vector |-> vector, duration |-> duration,
     log |-> log, result |-> result]

\* the local start_time before line 43 has bound it
Unbound == -1

\* context_api.get_value(_SUPPRESS_INSTRUMENTATION_KEY) as a condition
SuppressBranchNever(g) == FALSE
SuppressBranch(g) == g

\* the arguments the underlying callable is called with: wrapped(*args, **kwargs)
CallArgs(kw) == kw
\* the statement wrapped(*args, **kwargs) (lines 39, 44, 96, 104, 113, 122)
\* calls the underlying callable once
InvokeWithRetry(calls, kw) == Append(Append(calls, CallArgs(kw)), CallArgs(kw))
Invoke(calls, kw) == Append(calls, CallArgs(kw))

\* `return wrapped(*args, **kwargs)`: a synchronous callable has run when the
\* statement returns; an asynchronous one has only built its coroutine, which
\* the `async def` wrapper hands back without awaiting it
PassthroughResult(w, o) == IF w = "async" THEN Coroutine ELSE o

\* `raise e`
ReRaiseWrapped(e) == Exc("Exception", e.msg)
ReRaise(e) == e

\* if is_openai_v1(): model_as_dict(response) else: response
ResponseDictInverted(v1, response) ==
    IF v1 THEN response ELSE model_as_dict(response)
ResponseDict(v1, response) == IF v1 THEN model_as_dict(response) ELSE response

\* `x or None`
OrNone(v) == IF v = "" THEN "None" ELSE v

shared_attributes(response_dict) ==
    ("llm.response.model" :> OrNone(response_dict.model))
        @@ ("server.address" :> BaseUrl)

error_attributes(e) ==
    ("error.type" :> e.cls) @@ ("server.address" :> BaseUrl)

\* name.split('_')[0]
RECURSIVE FirstSegment(_)
FirstSegment(name) ==
    IF name = <<>> \/ Head(name) = "_" THEN <<>>
    ELSE <<Head(name)>> \o FirstSegment(Tail(name))
TokenType(name) == FirstSegment(name)

\* lines 75-78: one add per recognized item, in the mapping's order
RECURSIVE TokenAddsAll(_, _)
TokenAddsAll(items, shared) ==
    IF items = <<>> THEN <<>>
    ELSE <<Measurement(Head(items).val,
               shared @@ ("llm.usage.token_type" :> TokenType(Head(items).name)))>>
         \o TokenAddsAll(Tail(items), shared)
RECURSIVE TokenAdds(_, _)
TokenAdds(items, shared) ==
    IF items = <<>> THEN <<>>
    ELSE (IF Head(items).name \in OPENAI_LLM_USAGE_TOKEN_TYPES
          THEN <<Measurement(Head(items).val,
                    shared @@ ("llm.usage.token_type" :> TokenType(Head(items).name)))>>
          ELSE <<>>)
         \o TokenAdds(Tail(items), shared)

\* lines 82-83: (response_dict.get("data") or [{}])[0].get("embedding", [])
\* and its len(); exc is the exception the expression raises, if any
VecResult(exc, size) == [exc |-> exc, size |-> size]
VecSize(response_dict) ==
    LET items == IF response_dict.data.present /\ response_dict.data.items # <<>>
                 THEN response_dict.data.items ELSE <<EmptyElem>>
        first == items[1]
    IN  IF ~first.ismap THEN VecResult(Exc("AttributeError", "get"), 0)
        ELSE IF ~first.hasEmb THEN VecResult(NoExc, 0)
        ELSE IF first.embNull THEN VecResult(Exc("TypeError", "len"), 0)
        ELSE VecResult(NoExc, Len(first.vec))

Repeat(ev, n) == [i \in 1..n |-> ev]

\* line 48
FailureDuration(start, end) == IF start # Unbound THEN end - start ELSE 0
\* line 87
SuccessDuration(start, end) == end - start

\* line 57: `if duration > 0`
DurationIsLegalOrZero(duration) == duration >= 0
DurationIsLegal(duration) == duration > 0

\* lines 47-60: the handler of `except Exception as e`
MetricsOnException(e, start, end) ==
    LET duration == FailureDuration(start, end)
        attributes == error_attributes(e)
        recorded == DurationIsLegal(duration)
    IN  Emission(<<Measurement(1, attributes)>>,
                 <<Measurement(1, attributes)>>,
                 IF recorded THEN <<Measurement(duration, attributes)>> ELSE <<>>,
                 <<"token_add", "vector_add">>
                     \o (IF recorded THEN <<"duration_record">> ELSE <<>>)
                     \o <<"raise">>,
                 Raises(ReRaise(e)))

\* the value handed back by `return response`
ReturnValueDict(response, response_dict) == response_dict
ReturnValue(response, response_dict) == response

\* the same with the whole body inside the try statement: what line 82 or 83
\* raises reaches the `except Exception` handler
MetricsOnSuccessInTry(v1, response, start, end) ==
    LET response_dict == ResponseDict(v1, response)
        shared == shared_attributes(response_dict)
        tokens == IF response_dict.usage.present
                  THEN TokenAdds(response_dict.usage.items, shared) ELSE <<>>
        vec == VecSize(response_dict)
        failed == MetricsOnException(vec.exc, start, end)
    IN  IF vec.exc # NoExc
        THEN Emission(tokens \o failed.tokens, failed.vector, failed.duration,
                      Repeat("token_add", Len(tokens)) \o failed.log,
                      failed.result)
        ELSE Emission(tokens,
                      <<Measurement(vec.size, shared)>>,
                      <<Measurement(SuccessDuration(start, end), shared)>>,
                      Repeat("token_add", Len(tokens))
                          \o <<"vector_add", "duration_record", "return">>,
                      Returns(ReturnValue(response, response_dict)))
\* lines 62-90: what follows the try statement when the call returned
MetricsOnSuccess(v1, response, start, end) ==
    LET response_dict == ResponseDict(v1, response)
        shared == shared_attributes(response_dict)
        tokens == IF response_dict.usage.present
                  THEN TokenAdds(response_dict.usage.items, shared) ELSE <<>>
        vec == VecSize(response_dict)
    IN  IF response_dict.shape # "mapping"
        THEN Emission(<<>>, <<>>, <<>>, <<"raise">>,
                      Raises(Exc("AttributeError", "get")))
        ELSE IF vec.exc # NoExc
        THEN Emission(tokens, <<>>, <<>>,
                      Repeat("token_add", Len(tokens)) \o <<"raise">>,
                      Raises(vec.exc))
        ELSE Emission(tokens,
                      <<Measurement(vec.size, shared)>>,
                      <<Measurement(SuccessDuration(start, end), shared)>>,
                      Repeat("token_add", Len(tokens))
                          \o <<"vector_add", "duration_record", "return">>,
                      Returns(ReturnValue(response, response_dict)))

\* ------------------------------------------- embeddings_wrapper (tracing)
Key(name, index) == [name |-> name, index |-> index]
Attr(key, value) == [key |-> key, value |-> value]
\* attributes={SpanAttributes.LLM_REQUEST_TYPE: LLM_REQUEST_TYPE.value}
InitialAttributes == { Attr(Key("llm.request.type", -1), "embedding") }

\* _set_span_attribute: sets the attribute unless the value is None
SetSpanAttribute(key, value) ==
    IF value = "None" THEN {} ELSE { Attr(key, value) }
\* _set_request_attributes(span, kwargs)
RequestAttributes(kw) == SetSpanAttribute(Key("llm.request.model", -1), kw.model)
\* _set_response_attributes(span, response_dict)
ResponseAttributes(response_dict) ==
    SetSpanAttribute(Key("llm.response.model", -1), response_dict.model)

\* line 144: `not span.is_recording() or not prompt`
PromptSkipped(recording, prompt) ==
    \/ ~recording
    \/ prompt.kind = "none"
    \/ prompt.items = <<>>
    \/ (prompt.kind = "str" /\ prompt.items[1] = "")

\* lines 143-158 of _set_prompts; enumerate() counts from 0. The key
\* f"{SpanAttributes.LLM_PROMPTS}.{i}.content" is kept as the pair of its name
\* and its index i.
PromptAttributesFromOne(recording, prompt) ==
    IF PromptSkipped(recording, prompt) THEN {}
    ELSE IF prompt.kind = "list"
    THEN UNION { SetSpanAttribute(Key("llm.prompts.content", i), prompt.items[i]) :
                     i \in 1..Len(prompt.items) }
    ELSE SetSpanAttribute(Key("llm.prompts.content", 1), prompt.items[1])
PromptAttributes(recording, prompt) ==
    IF PromptSkipped(recording, prompt) THEN {}
    ELSE IF prompt.kind = "list"
    THEN UNION { SetSpanAttribute(Key("llm.prompts.content", i - 1), prompt.items[i]) :
                     i \in 1..Len(prompt.items) }
    ELSE SetSpanAttribute(Key("llm.prompts.content", 0), prompt.items[1])

\* lines 143-160, _set_prompts as a whole: when the first _set_span_attribute
\* call raises (fails), `except Exception` logs a warning and no prompt
\* attribute is set
Handled(attrs, warned) == [attrs |-> attrs, warned |-> warned]
SetPrompts(recording, prompt, fails) ==
    IF ~PromptSkipped(recording, prompt) /\ fails THEN Handled({}, TRUE)
    ELSE Handled(PromptAttributes(recording, prompt), FALSE)

\* lines 128-131: _handle_request
HandleRequestAlways(recording, send_prompts, kw, fails) ==
    LET prompts == SetPrompts(TRUE, kw.input, fails)
    IN  Handled((IF recording THEN RequestAttributes(kw) ELSE {}) \cup prompts.attrs,
                prompts.warned)
HandleRequest(recording, send_prompts, kw, fails) ==
    LET prompts == IF send_prompts THEN SetPrompts(recording, kw.input, fails)
                   ELSE Handled({}, FALSE)
    IN  Handled((IF recording THEN RequestAttributes(kw) ELSE {}) \cup prompts.attrs,
                prompts.warned)

\* lines 134-140: _handle_response
HandleResponse(recording, v1, response) ==
    IF recording THEN ResponseAttributes(ResponseDict(v1, response)) ELSE {}

\* lines 104-105, 122-123: _handle_response follows the call inside the
\* block, so it runs only when the call returned
ResponseHandledAlways(exit) == TRUE
ResponseHandled(exit) == exit = "return"

\* leaving the `with tracer.start_as_current_span(...)` block of lines 98-107
\* by "return" or by "raise": is the span ended?
with_exit_on_return_only(exit) == exit = "return"
with_exit(exit) == TRUE
\* leaving the `async with start_as_current_span_async(...)` block of lines
\* 115-125: the scoped span ends on every exit path
async_with_exit(exit) == TRUE
ScopeExit(w, exit) == IF w = "async" THEN async_with_exit(exit) ELSE with_exit(exit)

\* ------------------------------------------------------------------- state
VARIABLES
    gate,               \* _SUPPRESS_INSTRUMENTATION_KEY in the current context
    is_v1,              \* is_openai_v1()
    trace_content,      \* should_send_prompts()
    prev_gate,          \* the gate at the entry of the invocation before:
                        \* "none", "set" or "clear"
    pc,                 \* where each caller's invocation stands
    wrapper,            \* which wrapper it invoked
    kwargs,             \* with which keyword arguments
    entry_gate,         \* the gate when the invocation was entered
    outcome,            \* what the underlying call does in this invocation
    called,             \* the arguments of each call of the underlying callable
    start_time,         \* local start_time
    end_time,           \* local end_time
    result,             \* what the caller got: a value or an exception
    log,                \* the invocation's events, in order
    token_counter,      \* add() calls received from the invocation
    vector_size_counter,
    duration_histogram, \* record() calls received from the invocation
    span,               \* "not_started", "recording" or "ended"
    span_ends,          \* how often the invocation's span was ended
    span_recording,     \* span.is_recording()
    span_attrs          \* attributes set on the span

globals == <<gate, is_v1, trace_content, prev_gate>>
frame == <<wrapper, kwargs, entry_gate, outcome>>
timing == <<start_time, end_time>>
instruments == <<token_counter, vector_size_counter, duration_histogram>>
spans == <<span, span_ends, span_recording, span_attrs>>
vars == <<globals, pc, frame, called, timing, result, log, instruments, spans>>

Init ==
    /\ gate \in BOOLEAN
    /\ is_v1 \in BOOLEAN
    /\ trace_content \in BOOLEAN
    /\ prev_gate = "none"
    /\ pc = [t \in Threads |-> "idle"]
    /\ wrapper = [t \in Threads |-> "metrics"]
    /\ kwargs = [t \in Threads |-> NoKwargs]
    /\ entry_gate = [t \in Threads |-> FALSE]
    /\ outcome = [t \in Threads |-> Nothing]
    /\ called = [t \in Threads |-> <<>>]
    /\ start_time = [t \in Threads |-> Unbound]
    /\ end_time = [t \in Threads |-> Unbound]
    /\ result = [t \in Threads |-> Nothing]
    /\ log = [t \in Threads |-> <<>>]
    /\ token_counter = [t \in Threads |-> <<>>]
    /\ vector_size_counter = [t \in Threads |-> <<>>]
    /\ duration_histogram = [t \in Threads |-> <<>>]
    /\ span = [t \in Threads |-> "not_started"]
    /\ span_ends = [t \in Threads |-> 0]
    /\ span_recording = [t \in Threads |-> FALSE]
    /\ span_attrs = [t \in Threads |-> {}]

\* lines 38, 95, 112: the key is looked up in the context at every entry
SuppressedAsBefore == IF prev_gate = "none" THEN gate ELSE prev_gate = "set"
Suppressed == SuppressBranch(gate)

\* ----------------------------------------------------------------- actions
\* The context's suppression key is attached or detached.
SetGate ==
    /\ \A t \in Threads : pc[t] \in {"idle", "done"}
    /\ gate' = ~gate
    /\ UNCHANGED <<is_v1, trace_content, prev_gate, pc, frame, called, timing, result,
                   log, instruments, spans>>

\* A caller invokes one of the wrappers; the first statement (lines 38, 95,
\* 112) reads the suppression key.
EnterWith(t, ws, kws, os) ==
    /\ pc[t] = "idle"
    /\ \E w \in ws, kw \in kws, o \in os :
          /\ wrapper' = [wrapper EXCEPT ![t] = w]
          /\ kwargs' = [kwargs EXCEPT ![t] = kw]
          /\ outcome' = [outcome EXCEPT ![t] = o]
    /\ entry_gate' = [entry_gate EXCEPT ![t] = gate]
    /\ pc' = [pc EXCEPT ![t] = IF Suppressed THEN "passthrough" ELSE "start"]
    /\ UNCHANGED <<globals, called, timing, result, log, instruments, spans>>

\* one invocation at a time, over all wrappers, arguments and outcomes
Enter(t) ==
    /\ \A u \in Threads : pc[u] = "idle"
    /\ EnterWith(t, Wrappers, Kwargs, OutcomesOf(is_v1))

\* invocations of the metrics wrapper by several threads at once
ConcOutcomes ==
    { Returns(Response("mapping", "text-embedding-ada-002",
                       Usage(<<Entry(prompt_tokens, 5)>>),
                       Data(<<Embedding(1)>>))),
      Raises(Exc("RateLimitError", "rate limit")) }
EnterConcurrent(t) == EnterWith(t, {"metrics"}, {NoKwargs}, ConcOutcomes)

\* start_time is a local of the invocation's own frame (lines 43, 48, 87)
StartTimeOfAnyFrame(t) ==
    LET others == { u \in Threads \ {t} : start_time[u] # Unbound }
    IN  IF others = {} THEN start_time[t]
        ELSE start_time[CHOOSE u \in others : TRUE]
LocalStartTime(t) == start_time[t]

\* lines 39, 96, 113: return wrapped(*args, **kwargs)
Passthrough(t, w) ==
    /\ pc[t] = "passthrough"
    /\ wrapper[t] = w
    /\ called' = [called EXCEPT ![t] = Invoke(@, kwargs[t])]
    /\ result' = [result EXCEPT ![t] = PassthroughResult(w, outcome[t])]
    /\ log' = [log EXCEPT ![t] =
                  <<"call", IF PassthroughResult(w, outcome[t]).kind = "raise"
                            THEN "raise" ELSE "return">>]
    /\ pc' = [pc EXCEPT ![t] = "done"]
    /\ UNCHANGED <<globals, frame, timing, instruments, spans>>

MetricsSuppressed(t) == Passthrough(t, "metrics")
SyncSuppressed(t) == Passthrough(t, "sync")
AsyncSuppressed(t) == Passthrough(t, "async")

\* lines 43-44: start_time = time.time(); wrapped(*args, **kwargs) is called
MetricsStart(t) ==
    /\ pc[t] = "start"
    /\ wrapper[t] = "metrics"
    /\ \E now \in Times : start_time' = [start_time EXCEPT ![t] = now]
    /\ called' = [called EXCEPT ![t] = Invoke(@, kwargs[t])]
    /\ log' = [log EXCEPT ![t] = <<"call">>]
    /\ pc' = [pc EXCEPT ![t] = "in_call"]
    /\ UNCHANGED <<globals, frame, end_time, result, instruments, spans>>

Emit(t, em) ==
    /\ token_counter' = [token_counter EXCEPT ![t] = em.tokens]
    /\ vector_size_counter' = [vector_size_counter EXCEPT ![t] = em.vector]
    /\ duration_histogram' = [duration_histogram EXCEPT ![t] = em.duration]
    /\ log' = [log EXCEPT ![t] = @ \o em.log]
    /\ result' = [result EXCEPT ![t] = em.result]

\* lines 46-60: the call raised an Exception
MetricsExcept(t) ==
    /\ pc[t] = "in_call"
    /\ wrapper[t] = "metrics"
    /\ outcome[t].kind = "raise"
    /\ IsException(outcome[t].exc)
    /\ \E now \in Times :
          /\ end_time' = [end_time EXCEPT ![t] = now]
          /\ Emit(t, MetricsOnException(outcome[t].exc, LocalStartTime(t), now))
    /\ pc' = [pc EXCEPT ![t] = "done"]
    /\ UNCHANGED <<globals, frame, called, start_time, spans>>

\* the call raised something `except Exception` does not catch
MetricsSignal(t) ==
    /\ pc[t] = "in_call"
    /\ wrapper[t] = "metrics"
    /\ outcome[t].kind = "raise"
    /\ ~IsException(outcome[t].exc)
    /\ result' = [result EXCEPT ![t] = Raises(outcome[t].exc)]
    /\ log' = [log EXCEPT ![t] = Append(@, "raise")]
    /\ pc' = [pc EXCEPT ![t] = "done"]
    /\ UNCHANGED <<globals, frame, called, timing, instruments, spans>>

\* lines 45, 62-90: the call returned
MetricsSuccess(t) ==
    /\ pc[t] = "in_call"
    /\ wrapper[t] = "metrics"
    /\ outcome[t].kind = "return"
    /\ \E now \in Times :
          /\ end_time' = [end_time EXCEPT ![t] = now]
          /\ Emit(t, MetricsOnSuccess(is_v1, outcome[t].resp, LocalStartTime(t), now))
    /\ pc' = [pc EXCEPT ![t] = "done"]
    /\ UNCHANGED <<globals, frame, called, start_time, spans>>

\* lines 98-104, 115-122: the span is started, the request handled and the
\* underlying callable called
TracingStart(t, w) ==
    /\ pc[t] = "start"
    /\ wrapper[t] = w
    /\ \E rec \in BOOLEAN, fails \in BOOLEAN :
          LET handled == HandleRequest(rec, trace_content, kwargs[t], fails)
          IN  /\ span_recording' = [span_recording EXCEPT ![t] = rec]
              /\ span_attrs' = [span_attrs EXCEPT ![t] =
                    (IF rec THEN InitialAttributes ELSE {}) \cup handled.attrs]
              /\ log' = [log EXCEPT ![t] =
                    <<"span_start", "request_attributes">>
                        \o (IF handled.warned THEN <<"prompt_warning">> ELSE <<>>)
                        \o <<"call">>]
    /\ span' = [span EXCEPT ![t] = "recording"]
    /\ called' = [called EXCEPT ![t] = Invoke(@, kwargs[t])]
    /\ pc' = [pc EXCEPT ![t] = "in_call"]
    /\ UNCHANGED <<globals, frame, timing, result, instruments, span_ends>>

\* lines 104-107, 122-125: the call (awaited, in the asynchronous wrapper)
\* returns or raises, and the block of the span is left
TracingFinish(t, w) ==
    /\ pc[t] = "in_call"
    /\ wrapper[t] = w
    /\ LET o == outcome[t]
           ended == ScopeExit(w, o.kind)
       IN  /\ span_attrs' = [span_attrs EXCEPT ![t] =
                  IF ResponseHandled(o.kind)
                  THEN @ \cup HandleResponse(span_recording[t], is_v1, o.resp)
                  ELSE @]
           /\ span' = [span EXCEPT ![t] = IF ended THEN "ended" ELSE @]
           /\ span_ends' = [span_ends EXCEPT ![t] = IF ended THEN @ + 1 ELSE @]
           /\ result' = [result EXCEPT ![t] =
                  IF o.kind = "return"
                  THEN Returns(ReturnValue(o.resp, ResponseDict(is_v1, o.resp)))
                  ELSE Raises(o.exc)]
           /\ log' = [log EXCEPT ![t] =
                  @ \o (IF ResponseHandled(o.kind) THEN <<"response_attributes">>
                        ELSE <<>>)
                    \o (IF ended THEN <<"span_end">> ELSE <<>>)
                    \o <<o.kind>>]
    /\ pc' = [pc EXCEPT ![t] = "done"]
    /\ UNCHANGED <<globals, frame, called, timing, instruments, span_recording>>

SyncStart(t) == TracingStart(t, "sync")
SyncFinish(t) == TracingFinish(t, "sync")
AsyncStart(t) == TracingStart(t, "async")
AsyncFinish(t) == TracingFinish(t, "async")

\* The caller has its result; the invocation's frame is gone.
Collect(t) ==
    /\ pc[t] = "done"
    /\ pc' = [pc EXCEPT ![t] = "idle"]
    /\ wrapper' = [wrapper EXCEPT ![t] = "metrics"]
    /\ kwargs' = [kwargs EXCEPT ![t] = NoKwargs]
    /\ entry_gate' = [entry_gate EXCEPT ![t] = FALSE]
    /\ outcome' = [outcome EXCEPT ![t] = Nothing]
    /\ called' = [called EXCEPT ![t] = <<>>]
    /\ start_time' = [start_time EXCEPT ![t] = Unbound]
    /\ end_time' = [end_time EXCEPT ![t] = Unbound]
    /\ result' = [result EXCEPT ![t] = Nothing]
    /\ log' = [log EXCEPT ![t] = <<>>]
    /\ token_counter' = [token_counter EXCEPT ![t] = <<>>]
    /\ vector_size_counter' = [vector_size_counter EXCEPT ![t] = <<>>]
    /\ duration_histogram' = [duration_histogram EXCEPT ![t] = <<>>]
    /\ span' = [span EXCEPT ![t] = "not_started"]
    /\ span_ends' = [span_ends EXCEPT ![t] = 0]
    /\ span_recording' = [span_recording EXCEPT ![t] = FALSE]
    /\ span_attrs' = [span_attrs EXCEPT ![t] = {}]
    /\ prev_gate' = IF entry_gate[t] THEN "set" ELSE "clear"
    /\ UNCHANGED <<gate, is_v1, trace_content>>

Next ==
    \/ SetGate
    \/ \E t \in Threads : Enter(t)
    \/ \E t \in Threads : MetricsSuppressed(t)
    \/ \E t \in Threads : SyncSuppressed(t)
    \/ \E t \in Threads : AsyncSuppressed(t)
    \/ \E t \in Threads : MetricsStart(t)
    \/ \E t \in Threads : MetricsExcept(t)
    \/ \E t \in Threads : MetricsSignal(t)
    \/ \E t \in Threads : MetricsSuccess(t)
    \/ \E t \in Threads : SyncStart(t)
    \/ \E t \in Threads : SyncFinish(t)
    \/ \E t \in Threads : AsyncStart(t)
    \/ \E t \in Threads : AsyncFinish(t)
    \/ \E t \in Threads : Collect(t)

Spec == Init /\ [][Next]_vars

\* Several threads inside the metrics wrapper at once, their steps interleaved.
InitConcurrent == Init /\ ~gate /\ ~is_v1 /\ ~trace_content
NextConcurrent ==
    \/ \E t \in Threads : EnterConcurrent(t)
    \/ \E t \in Threads : MetricsStart(t)
    \/ \E t \in Threads : MetricsExcept(t)
    \/ \E t \in Threads : MetricsSuccess(t)
    \/ \E t \in Threads : Collect(t)
SpecConcurrent == InitConcurrent /\ [][NextConcurrent]_vars

\* ------------------------------------------------------------- properties
Tracing == {"sync", "async"}
Active(t) == pc[t] # "idle"
Done(t) == pc[t] = "done"
NoMetrics(t) ==
    /\ token_counter[t] = <<>>
    /\ vector_size_counter[t] = <<>>
    /\ duration_histogram[t] = <<>>
NoSpan(t) == span[t] = "not_started" /\ span_ends[t] = 0 /\ span_attrs[t] = {}
\* event a occurs in l, and every occurrence of it precedes the last event
EmittedBeforeExit(l, a) ==
    \E i \in 1..Len(l) : l[i] = a /\ i < Len(l)
Measurements(t) ==
    { token_counter[t][i] : i \in 1..Len(token_counter[t]) }
        \cup { vector_size_counter[t][i] : i \in 1..Len(vector_size_counter[t]) }
        \cup { duration_histogram[t][i] : i \in 1..Len(duration_histogram[t]) }

\* C1: an invocation of the metrics wrapper or of the synchronous tracing
\* wrapper entered while the suppression key is set starts no span, reaches
\* no instrument, and hands the caller exactly what the underlying call
\* returned or raised.
C1_PassthroughUnderSuppression ==
    \A t \in Threads :
        (Active(t) /\ entry_gate[t] /\ wrapper[t] \in {"metrics", "sync"}) =>
            /\ NoMetrics(t)
            /\ NoSpan(t)
            /\ Done(t) => result[t] = outcome[t]
C1_Witness ==
    \E t \in Threads :
        /\ Done(t) /\ entry_gate[t] /\ wrapper[t] = "metrics"
        /\ outcome[t].kind = "raise" /\ result[t] = outcome[t]

\* C2: an invocation of the asynchronous tracing wrapper entered while the
\* suppression key is set gives its awaiting caller what awaiting the
\* underlying call gives (the response or the exception), and starts no span.
C2_AsyncPassthrough ==
    \A t \in Threads :
        (Done(t) /\ entry_gate[t] /\ wrapper[t] = "async") =>
            result[t] = outcome[t] /\ NoSpan(t)

\* C3: when the underlying call of the metrics wrapper (suppression key not
\* set) raises an exception E, the caller gets E itself, and the adds to the
\* token counter and to the vector-size counter precede the raise.
C3_ExceptionTransparency ==
    \A t \in Threads :
        (Done(t) /\ ~entry_gate[t] /\ wrapper[t] = "metrics"
            /\ outcome[t].kind = "raise"
            /\ outcome[t].exc.cls \in OrdinaryClasses) =>
            /\ result[t] = outcome[t]
            /\ log[t][Len(log[t])] = "raise"
            /\ EmittedBeforeExit(log[t], "token_add")
            /\ EmittedBeforeExit(log[t], "vector_add")
            /\ Len(token_counter[t]) = 1
            /\ Len(vector_size_counter[t]) = 1
C3_Witness ==
    \E t \in Threads :
        /\ Done(t) /\ ~entry_gate[t] /\ wrapper[t] = "metrics"
        /\ outcome[t] = Raises(Exc("RateLimitError", "rate limit"))
        /\ result[t].kind = "raise"

\* C4: in both tracing wrappers (suppression key not set) the span is not
\* started before the block is entered, recording while the underlying call
\* runs, and ended exactly once when the invocation is over, whether the call
\* returned, raised or was cancelled.
C4_SpanEndsExactlyOnce ==
    \A t \in Threads :
        (Active(t) /\ ~entry_gate[t] /\ wrapper[t] \in Tracing) =>
            /\ pc[t] = "start" => span[t] = "not_started" /\ span_ends[t] = 0
            /\ pc[t] = "in_call" => span[t] = "recording" /\ span_ends[t] = 0
            /\ Done(t) => span[t] = "ended" /\ span_ends[t] = 1
C4_Witness ==
    \E t \in Threads :
        /\ Done(t) /\ ~entry_gate[t] /\ wrapper[t] = "async"
        /\ outcome[t] = Raises(Exc("CancelledError", ""))
        /\ span[t] = "ended" /\ span_ends[t] = 1

\* C5: whenever the underlying call returned normally the wrapped call
\* returns normally too, and an exception the caller sees is the underlying
\* call's own.
C5_TelemetryNeverFails ==
    \A t \in Threads :
        Done(t) =>
            /\ outcome[t].kind = "return" => result[t].kind # "raise"
            /\ result[t].kind = "raise" => result[t] = outcome[t]

\* C6: with the suppression key not set, a wrapper that returns hands back the
\* very response object the underlying call returned, and the underlying
\* callable was called with exactly the wrapper's arguments.
C6_SameResponseSameArguments ==
    \A t \in Threads :
        (Active(t) /\ ~entry_gate[t]) =>
            /\ pc[t] \in {"in_call", "done"} => called[t] = <<kwargs[t]>>
            /\ (Done(t) /\ result[t].kind = "return") =>
                   /\ outcome[t].kind = "return"
                   /\ result[t].resp = outcome[t].resp
C6_Witness ==
    \E t \in Threads :
        /\ Done(t) /\ ~entry_gate[t] /\ wrapper[t] = "async"
        /\ result[t].kind = "return" /\ result[t].resp.shape = "object"
        /\ kwargs[t].input = ListInput(<<"a", "b">>)

\* C7: one invocation of the metrics wrapper (suppression key not set) adds
\* to the vector-size counter at most once, records at most one duration, adds
\* at most once per token type, and tags everything it emits either with the
\* success tags or with the failure tags, never with both.
SuccessTags == {"llm.response.model", "server.address"}
FailureTags == {"error.type", "server.address"}
HasSuccessShape(m) ==
    DOMAIN m.attributes \in {SuccessTags, SuccessTags \cup {"llm.usage.token_type"}}
HasFailureShape(m) == DOMAIN m.attributes = FailureTags
C7_OneMeasurementSetOneTagShape ==
    \A t \in Threads :
        (Active(t) /\ ~entry_gate[t] /\ wrapper[t] = "metrics") =>
            /\ Len(vector_size_counter[t]) <= 1
            /\ Len(duration_histogram[t]) <= 1
            /\ \A i, j \in 1..Len(token_counter[t]) :
                   token_counter[t][i].attributes = token_counter[t][j].attributes
                       => i = j
            /\ \/ \A m \in Measurements(t) : HasSuccessShape(m)
               \/ \A m \in Measurements(t) : HasFailureShape(m)
            /\ \A i \in 1..Len(vector_size_counter[t]) :
                   "llm.usage.token_type" \notin
                       DOMAIN vector_size_counter[t][i].attributes
            /\ \A i \in 1..Len(duration_histogram[t]) :
                   "llm.usage.token_type" \notin
                       DOMAIN duration_histogram[t][i].attributes
C7_Witness ==
    \E t \in Threads :
        /\ Done(t) /\ ~entry_gate[t] /\ wrapper[t] = "metrics"
        /\ Len(token_counter[t]) = 2
        /\ Len(vector_size_counter[t]) = 1
        /\ Len(duration_histogram[t]) = 1

\* C8: on a call of the metrics wrapper that returned, the token counter got
\* one add per item of the usage mapping whose key is in the allow-list, in
\* order, with the item's count as amount and the key's text before the
\* underscore ("prompt" for prompt_tokens) as llm.usage.token_type; other
\* keys and an absent usage add nothing.
ExpectedTokenType(name) ==
    IF name = prompt_tokens THEN <<"p","r","o","m","p","t">>
    ELSE IF name = completion_tokens
    THEN <<"c","o","m","p","l","e","t","i","o","n">>
    ELSE <<"t","o","t","a","l">>
Recognized(item) == item.name \in OPENAI_LLM_USAGE_TOKEN_TYPES
ExpectedTokens(usage) ==
    LET kept == SelectSeq(usage.items, Recognized)
    IN  [i \in 1..Len(kept) |-> <<kept[i].val, ExpectedTokenType(kept[i].name)>>]
ObservedTokens(t) ==
    [i \in 1..Len(token_counter[t]) |->
        <<token_counter[t][i].amount,
          token_counter[t][i].attributes["llm.usage.token_type"]>>]
C8_TokenAccounting ==
    \A t \in Threads :
        (Done(t) /\ ~entry_gate[t] /\ wrapper[t] = "metrics"
            /\ outcome[t].kind = "return") =>
            ObservedTokens(t) =
                (IF outcome[t].resp.usage.present
                 THEN ExpectedTokens(outcome[t].resp.usage) ELSE <<>>)
C8_Witness ==
    \E t \in Threads :
        /\ Done(t) /\ ~entry_gate[t] /\ wrapper[t] = "metrics"
        /\ outcome[t].kind = "return"
        /\ outcome[t].resp.usage =
               Usage(<<Entry(prompt_tokens, 5), Entry(total_tokens, 5)>>)
        /\ Len(token_counter[t]) = 1

\* C9: on a call of the metrics wrapper whose underlying call returned, the
\* vector-size counter gets exactly one add, of the length of the first data
\* element's embedding, 0 when there is none, and computing it never raises.
ExpectedVecSize(response) ==
    IF response.data.present /\ response.data.items # <<>>
           /\ response.data.items[1].hasEmb
    THEN Len(response.data.items[1].vec) ELSE 0
C9_VectorSize ==
    \A t \in Threads :
        (Done(t) /\ ~entry_gate[t] /\ wrapper[t] = "metrics"
            /\ outcome[t].kind = "return") =>
            /\ result[t].kind = "return"
            /\ Len(vector_size_counter[t]) = 1
            /\ vector_size_counter[t][1].amount = ExpectedVecSize(outcome[t].resp)

\* C10: every value recorded to the duration histogram is >= 0.
C10_DurationNonNegative ==
    \A t \in Threads :
        \A i \in 1..Len(duration_histogram[t]) :
            duration_histogram[t][i].amount >= 0

\* C11: when prompts are set on a recording span, a list of n strings sets
\* exactly llm.prompts.0.content .. llm.prompts.(n-1).content, the i-th holding
\* the i-th element, a single string sets llm.prompts.0.content alone, and no
\* other prompt attribute is set.
PromptsOn(t) == { a \in span_attrs[t] : a.key.name = "llm.prompts.content" }
PromptsSet(t) ==
    /\ Active(t) /\ ~entry_gate[t] /\ wrapper[t] \in Tracing
    /\ pc[t] \in {"in_call", "done"}
    /\ trace_content /\ span_recording[t]
    /\ "prompt_warning" \notin { log[t][i] : i \in 1..Len(log[t]) }
C11_PromptIndexing ==
    \A t \in Threads :
        PromptsSet(t) =>
            LET prompt == kwargs[t].input
            IN  /\ prompt.kind = "list" =>
                       PromptsOn(t) =
                           { Attr([name |-> "llm.prompts.content", index |-> i - 1],
                                  prompt.items[i]) : i \in 1..Len(prompt.items) }
                /\ (prompt.kind = "str" /\ prompt.items[1] # "") =>
                       PromptsOn(t) =
                           { Attr([name |-> "llm.prompts.content", index |-> 0],
                                  prompt.items[1]) }
C11_Witness ==
    \E t \in Threads :
        /\ PromptsSet(t) /\ Done(t)
        /\ kwargs[t].input = ListInput(<<"a", "b">>)
        /\ Cardinality(PromptsOn(t)) = 2

\* C12: in both tracing wrappers the events of an invocation are ordered span
\* started, request attributes set, underlying call, response attributes set
\* (only when the call returned), span ended; when the call raises no response
\* attribute is set and the caller gets the call's own exception.
WithoutWarning(l) == SelectSeq(l, LAMBDA ev : ev # "prompt_warning")
C12_TracingOrder ==
    \A t \in Threads :
        (Active(t) /\ ~entry_gate[t] /\ wrapper[t] \in Tracing) =>
            /\ pc[t] = "in_call" =>
                   WithoutWarning(log[t]) =
                       <<"span_start", "request_attributes", "call">>
            /\ (Done(t) /\ outcome[t].kind = "return") =>
                   WithoutWarning(log[t]) =
                       <<"span_start", "request_attributes", "call",
                         "response_attributes", "span_end", "return">>
            /\ (Done(t) /\ outcome[t].kind = "raise") =>
                   /\ WithoutWarning(log[t]) =
                          <<"span_start", "request_attributes", "call",
                            "span_end", "raise">>
                   /\ \A a \in span_attrs[t] : a.key.name # "llm.response.model"
                   /\ result[t] = outcome[t]
C12_Witness ==
    \E t \in Threads :
        /\ Done(t) /\ ~entry_gate[t] /\ wrapper[t] = "sync"
        /\ outcome[t] = Raises(Exc("RateLimitError", "rate limit"))
        /\ span_recording[t]
        /\ result[t] = outcome[t]

\* C13: when the underlying call of the metrics wrapper (suppression key not
\* set) raises an exception, the token counter and the vector-size counter
\* each get exactly one add of 1 tagged {error.type: class name,
\* server.address: base URL}, and the histogram gets one record with these
\* tags exactly when end time minus start time is strictly positive.
FailureTagsOf(e) ==
    [k \in {"error.type", "server.address"} |->
        IF k = "error.type" THEN e.cls ELSE BaseUrl]
C13_FailureTelemetry ==
    \A t \in Threads :
        (Done(t) /\ ~entry_gate[t] /\ wrapper[t] = "metrics"
            /\ outcome[t].kind = "raise"
            /\ outcome[t].exc.cls \in OrdinaryClasses) =>
            LET one == [amount |-> 1, attributes |-> FailureTagsOf(outcome[t].exc)]
                elapsed == end_time[t] - start_time[t]
            IN  /\ token_counter[t] = <<one>>
                /\ vector_size_counter[t] = <<one>>
                /\ duration_histogram[t] =
                       (IF elapsed > 0
                        THEN <<[amount |-> elapsed,
                                attributes |-> FailureTagsOf(outcome[t].exc)]>>
                        ELSE <<>>)
C13_Witness ==
    \E t \in Threads :
        /\ Done(t) /\ ~entry_gate[t] /\ wrapper[t] = "metrics"
        /\ outcome[t].kind = "raise" /\ outcome[t].exc.cls \in OrdinaryClasses
        /\ end_time[t] = start_time[t]
        /\ Len(token_counter[t]) = 1 /\ Len(vector_size_counter[t]) = 1
        /\ duration_histogram[t] = <<>>

\* C14: in both tracing wrappers prompt attributes are on the span only when
\* prompt recording is enabled, the span is recording and the input is not
\* empty; a failure while setting them leaves a warning, the underlying call
\* is still made and its result handed to the caller.
EmptyPrompt(prompt) ==
    \/ prompt.kind = "none"
    \/ prompt.items = <<>>
    \/ (prompt.kind = "str" /\ prompt.items[1] = "")
C14_PromptsOnlyWhenEnabled ==
    \A t \in Threads :
        (Active(t) /\ ~entry_gate[t] /\ wrapper[t] \in Tracing) =>
            /\ (~trace_content \/ ~span_recording[t] \/ EmptyPrompt(kwargs[t].input))
                   => PromptsOn(t) = {}
            /\ (pc[t] \in {"in_call", "done"}
                    /\ "prompt_warning" \in { log[t][i] : i \in 1..Len(log[t]) }) =>
                   /\ called[t] = <<kwargs[t]>>
                   /\ Done(t) => result[t] = outcome[t]
C14_Witness ==
    \E t \in Threads :
        /\ Done(t) /\ ~entry_gate[t] /\ wrapper[t] = "async"
        /\ "prompt_warning" \in { log[t][i] : i \in 1..Len(log[t]) }
        /\ PromptsOn(t) = {}
        /\ result[t].kind = "return"

\* C15: every invocation of any of the three wrappers, suppressed or not,
\* successful or failed, calls the underlying callable exactly once: never a
\* second time, never not at all.
C15_CalledExactlyOnce ==
    \A t \in Threads :
        /\ Len(called[t]) <= 1
        /\ pc[t] \in {"in_call", "done"} => Len(called[t]) = 1
C15_Witness ==
    \E t \in Threads :
        /\ Done(t) /\ wrapper[t] = "metrics" /\ ~entry_gate[t]
        /\ result[t].kind = "raise"
        /\ Len(called[t]) = 1

\* C19: when the underlying call of the metrics wrapper (suppression key not
\* set) exits with something that is no Exception (cancellation, keyboard
\* interrupt), no instrument gets an add or a record and the caller gets that
\* very signal.
C19_SignalsBypassTelemetry ==
    \A t \in Threads :
        (Done(t) /\ ~entry_gate[t] /\ wrapper[t] = "metrics"
            /\ outcome[t].kind = "raise"
            /\ outcome[t].exc.cls \in SignalClasses) =>
            /\ NoMetrics(t)
            /\ result[t] = outcome[t]
C19_Witness ==
    \E t \in Threads :
        /\ Done(t) /\ ~entry_gate[t] /\ wrapper[t] = "metrics"
        /\ outcome[t] = Raises(Exc("CancelledError", ""))
        /\ result[t] = outcome[t]
        /\ NoMetrics(t)

\* C16: whether an invocation emits telemetry depends on the suppression key
\* at its own entry alone, whatever the key was at the entry of the invocation
\* before; the key is checked before any span is started or any time read.
C16_GateReadFresh ==
    \A t \in Threads :
        Active(t) =>
            /\ pc[t] \in {"passthrough", "start"} =>
                   /\ NoSpan(t) /\ NoMetrics(t)
                   /\ start_time[t] = Unbound
                   /\ log[t] = <<>>
            /\ (pc[t] = "passthrough") <=> (entry_gate[t] /\ ~Done(t))
            /\ (Done(t) /\ entry_gate[t]) =>
                   /\ NoSpan(t) /\ NoMetrics(t)
                   /\ start_time[t] = Unbound
            /\ (Done(t) /\ ~entry_gate[t]) =>
                   IF wrapper[t] = "metrics" THEN start_time[t] # Unbound
                   ELSE span_ends[t] = 1
C16_Witness ==
    \E t \in Threads :
        /\ Done(t) /\ ~entry_gate[t] /\ prev_gate = "set"
        /\ wrapper[t] = "metrics"
        /\ Len(vector_size_counter[t]) = 1

\* C18: the response the wrappers read from is a mapping with the content of
\* the underlying call's response: a typed object is converted, a mapping is
\* used as it is, normalizing again changes nothing, and the metrics wrapper
\* and the response handling of the tracing wrappers do read usage and model
\* from it.
C18_Normalization ==
    \A t \in Threads :
        (Done(t) /\ ~entry_gate[t] /\ outcome[t].kind = "return") =>
            LET response == outcome[t].resp
                response_dict == ResponseDict(is_v1, response)
            IN  /\ response_dict.shape = "mapping"
                /\ [response_dict EXCEPT !.shape = response.shape] = response
                /\ response.shape = "mapping" => response_dict = response
                /\ ResponseDict(is_v1, response_dict) = response_dict
                /\ wrapper[t] = "metrics" =>
                       Len(token_counter[t]) =
                           Len(SelectSeq(response.usage.items, Recognized))
                /\ (wrapper[t] \in Tracing /\ span_recording[t]
                        /\ response.model # "None") =>
                       Attr([name |-> "llm.response.model", index |-> -1],
                            response.model) \in span_attrs[t]
C18_Witness ==
    \E t \in Threads :
        /\ Done(t) /\ ~entry_gate[t] /\ wrapper[t] = "metrics"
        /\ is_v1 /\ outcome[t].kind = "return"
        /\ outcome[t].resp.shape = "object"
        /\ Len(token_counter[t]) = 2

\* C17: with invocations of the metrics wrapper interleaved, every invocation
\* emits what it would emit alone: the duration it records is its own end time
\* minus its own start time, under every interleaving, and the adds and
\* records received in total are those of the invocations taken one by one.
AloneCount(t) ==
    IF outcome[t].kind = "return" THEN 3
    ELSE IF end_time[t] - start_time[t] > 0 THEN 3 ELSE 2
EmittedCount(t) ==
    Len(token_counter[t]) + Len(vector_size_counter[t])
        + Len(duration_histogram[t])
C17_PrivateTiming ==
    \A t \in Threads :
        (Done(t) /\ wrapper[t] = "metrics" /\ ~entry_gate[t]) =>
            /\ \A i \in 1..Len(duration_histogram[t]) :
                   duration_histogram[t][i].amount = end_time[t] - start_time[t]
            /\ EmittedCount(t) = AloneCount(t)
C17_Witness ==
    \E t, u \in Threads :
        /\ t # u
        /\ Done(t) /\ pc[u] \in {"in_call", "done"}
        /\ start_time[t] # start_time[u]
        /\ Len(duration_histogram[t]) = 1
        /\ duration_histogram[t][1].amount = end_time[t] - start_time[t]
====
